---------------------------- MODULE Spec2Model ----------------------------
(***************************************************************************)
(* World Builder CLI (src/world_builder/cli.py): the node store (one text  *)
(* file per record), the index builder and the recursive tree renderer.    *)
(*                                                                         *)
(* Text is a sequence of one-character strings.  A record file is the text *)
(* it holds; the data directory is a function from file keys (the part of  *)
(* the file name before ".txt") to texts.                                  *)
(***************************************************************************)
EXTENDS Integers, Sequences, FiniteSets, TLC

VARIABLES
    dir,        \* TRUE when the data directory exists
    files,      \* file key -> text of <key>.txt
    creator,    \* history: file key -> the NAME argument of the add that wrote it
    cmd,        \* the command line being run / last run: [op, name, force]
    rc,         \* exit status of the last finished command (-1 while running)
    out,        \* lines printed by the command
    pc,         \* "idle" | "render" | "done" | "crashed"
    nodes,      \* cmd_tree: name -> Node
    children,   \* cmd_tree: parent reference -> list of child names
    roots,      \* cmd_tree: the sorted root list
    pending,    \* cmd_tree: the top-level display calls still to make
    stack,      \* the active display() frames, innermost last
    arg,        \* input of the function under study (pure-function specifications)
    res         \* its results

vars == <<dir, files, creator, cmd, rc, out, pc, nodes, children, roots,
          pending, stack, arg, res>>

-----------------------------------------------------------------------------
(* Bounds of the model *)

\* longest NAME given to slugify
MaxNameLen == 3
\* longest TYPE / PARENT argument of the round-trip study
MaxFieldLen == 2
\* longest NOTES argument of the round-trip study
MaxNotesLen == 2
\* CPython's recursion limit (sys.getrecursionlimit(), 1000 by default),
\* scaled down; it exceeds the deepest acyclic chain the stores below hold
RecursionLimit == 6

-----------------------------------------------------------------------------
(* Characters and strings *)

LowerAZ == <<"a","b","c","d","e","f","g","h","i","j","k","l","m",
             "n","o","p","q","r","s","t","u","v","w","x","y","z">>
UpperAZ == <<"A","B","C","D","E","F","G","H","I","J","K","L","M",
             "N","O","P","Q","R","S","T","U","V","W","X","Y","Z">>
Digits  == <<"0","1","2","3","4","5","6","7","8","9">>

IndexIn(c, s) == IF \E i \in 1..Len(s) : s[i] = c
                 THEN CHOOSE i \in 1..Len(s) : s[i] = c
                 ELSE 0

\* code point of an ASCII character
Code(c) ==
    CASE IndexIn(c, LowerAZ) > 0 -> 96 + IndexIn(c, LowerAZ)
      [] IndexIn(c, UpperAZ) > 0 -> 64 + IndexIn(c, UpperAZ)
      [] IndexIn(c, Digits) > 0  -> 47 + IndexIn(c, Digits)
      [] c = "\n" -> 10
      [] c = "\r" -> 13
      [] c = " "  -> 32
      [] c = "!"  -> 33
      [] c = "-"  -> 45
      [] c = "."  -> 46
      [] c = "/"  -> 47
      [] c = "_"  -> 95
      [] OTHER    -> 127

\* str.lower on one character
LowerChar(c) == IF IndexIn(c, UpperAZ) > 0 THEN LowerAZ[IndexIn(c, UpperAZ)] ELSE c

\* str.lower
Lower(s) == [i \in 1..Len(s) |-> LowerChar(s[i])]

RECURSIVE LStripBy(_, _)
LStripBy(s, drop) ==
    IF s # <<>> /\ Head(s) \in drop THEN LStripBy(Tail(s), drop) ELSE s

RECURSIVE RStripBy(_, _)
RStripBy(s, drop) ==
    IF s # <<>> /\ s[Len(s)] \in drop
    THEN RStripBy(SubSeq(s, 1, Len(s) - 1), drop)
    ELSE s

\* str.strip(chars)
StripBy(s, drop) == RStripBy(LStripBy(s, drop), drop)

\* str.strip()
Strip(s) == StripBy(s, {" ", "\n", "\r"})

\* s < t as Python compares strings (by code point, a prefix first)
RECURSIVE StrLess(_, _)
StrLess(s, t) ==
    IF t = <<>> THEN FALSE
    ELSE IF s = <<>> THEN TRUE
    ELSE IF Head(s) = Head(t) THEN StrLess(Tail(s), Tail(t))
    ELSE Code(Head(s)) < Code(Head(t))

\* all sequences over alphabet of length at most n
SeqsUpTo(alphabet, n) == UNION {[1..k -> alphabet] : k \in 0..n}

-----------------------------------------------------------------------------
(* slugify, cli.py 210-213 *)

IsAlnum(c) == IndexIn(c, LowerAZ) > 0 \/ IndexIn(c, Digits) > 0

\* re.sub(r"[^a-z0-9]+", "_", s): each maximal run outside [a-z0-9] becomes "_"
RECURSIVE SubNonAlnum(_)
SubNonAlnum(s) ==
    IF s = <<>> THEN <<>>
    ELSE IF IsAlnum(Head(s)) THEN <<Head(s)>> \o SubNonAlnum(Tail(s))
    ELSE <<"_">> \o SubNonAlnum(LStripBy(s, {c \in {s[i] : i \in 1..Len(s)} : ~IsAlnum(c)}))

\* re.sub(r"_+", "_", s): each maximal run of "_" becomes one "_"
RECURSIVE SubUnderscores(_)
SubUnderscores(s) ==
    IF s = <<>> THEN <<>>
    ELSE IF Head(s) # "_" THEN <<Head(s)>> \o SubUnderscores(Tail(s))
    ELSE <<"_">> \o SubUnderscores(LStripBy(s, {"_"}))

\* a slugify that forgets the final strip("_")
slugifyNoStrip(name) == SubUnderscores(SubNonAlnum(Strip(Lower(name))))

slugify(name) == StripBy(SubUnderscores(SubNonAlnum(Strip(Lower(name)))), {"_"})

-----------------------------------------------------------------------------
(* The node store: record files, cli.py 17-31 and 215-234 *)

\* os.linesep on POSIX: what write_text turns each "\n" into
LineSep == <<"\n">>

\* Path.write_text(text): text mode, newline=None translates "\n" to os.linesep
RECURSIVE WriteText(_)
WriteText(s) ==
    IF s = <<>> THEN <<>>
    ELSE (IF Head(s) = "\n" THEN LineSep ELSE <<Head(s)>>) \o WriteText(Tail(s))

\* Path.read_text(): universal newlines, "\r\n" and a lone "\r" are read as "\n"
RECURSIVE ReadText(_)
ReadText(s) ==
    IF s = <<>> THEN <<>>
    ELSE IF Head(s) = "\r"
         THEN <<"\n">> \o ReadText(IF Len(s) > 1 /\ s[2] = "\n"
                                   THEN SubSeq(s, 3, Len(s)) ELSE Tail(s))
         ELSE <<Head(s)>> \o ReadText(Tail(s))

IsLineBreak(c) == c \in {"\n", "\r"}

\* index of the first line break of s, 0 when it has none
FirstBreak(s) ==
    IF \E i \in 1..Len(s) : IsLineBreak(s[i])
    THEN CHOOSE i \in 1..Len(s) :
            IsLineBreak(s[i]) /\ \A j \in 1..(i - 1) : ~IsLineBreak(s[j])
    ELSE 0

\* str.splitlines(): no line for the text after the last break when it is empty
RECURSIVE SplitLines(_)
SplitLines(s) ==
    IF s = <<>> THEN <<>>
    ELSE LET i == FirstBreak(s) IN
         IF i = 0 THEN <<s>>
         ELSE LET j == IF s[i] = "\r" /\ i < Len(s) /\ s[i + 1] = "\n"
                       THEN i + 1 ELSE i
              IN  <<SubSeq(s, 1, i - 1)>> \o SplitLines(SubSeq(s, j + 1, Len(s)))

\* sep.join(lines)
RECURSIVE Join(_, _)
Join(lines, sep) ==
    IF lines = <<>> THEN <<>>
    ELSE IF Len(lines) = 1 THEN lines[1]
    ELSE lines[1] \o sep \o Join(Tail(lines), sep)

DefaultType == <<"N", "o", "d", "e">>
NoParent    == <<"-">>

read_node(text) ==
    LET lines == SplitLines(ReadText(text)) IN
    [type   |-> IF Len(lines) > 0 THEN Strip(lines[1]) ELSE DefaultType,
     parent |-> IF Len(lines) > 1 THEN Strip(lines[2]) ELSE NoParent,
     notes  |-> IF Len(lines) > 2 THEN Join(SubSeq(lines, 3, Len(lines)), <<"\n">>)
                ELSE <<>>]

\* a record text that forgets the final line break
RecordTextNoNewline(type, parent, notes) ==
    LET p     == IF parent # <<>> THEN parent ELSE <<"-">>
        lines == <<type, p>> \o (IF notes # <<>> THEN <<notes>> ELSE <<>>)
    IN  WriteText(Join(lines, <<"\n">>))

\* the text cmd_add writes (cli.py 227-232); an omitted -p is the empty parent
RecordText(type, parent, notes) ==
    LET p     == IF parent # <<>> THEN parent ELSE NoParent
        lines == <<type, p>> \o (IF notes # <<>> THEN <<notes>> ELSE <<>>)
    IN  WriteText(Join(lines, <<"\n">>) \o <<"\n">>)

TxtSuffix == <<".", "t", "x", "t">>

\* a node_path that forgets to normalise the name
node_pathRaw(name) == name

\* node_path: the file <slugify(name)>.txt
node_path(name) == slugify(name)

FileName(key) == key \o TxtSuffix

\* index of the last "." of name, 0 when it has none
LastDot(name) ==
    IF \E i \in 1..Len(name) : name[i] = "."
    THEN CHOOSE i \in 1..Len(name) :
            name[i] = "." /\ \A j \in (i + 1)..Len(name) : name[j] # "."
    ELSE 0

\* Path.stem: the name without its suffix; a name that only starts with a dot has none
Stem(name) ==
    LET i == LastDot(name) IN
    IF 1 < i /\ i < Len(name) THEN SubSeq(name, 1, i - 1) ELSE name

\* insert pair p = <<key, value>> after every pair whose key is not greater
RECURSIVE InsertPair(_, _)
InsertPair(p, sorted) ==
    IF sorted = <<>> THEN <<p>>
    ELSE IF StrLess(p[1], sorted[1][1]) THEN <<p>> \o sorted
    ELSE <<sorted[1]>> \o InsertPair(p, Tail(sorted))

\* a stable sort of <<key, value>> pairs by key
RECURSIVE SortPairs(_)
SortPairs(pairs) ==
    IF pairs = <<>> THEN <<>>
    ELSE InsertPair(pairs[Len(pairs)], SortPairs(SubSeq(pairs, 1, Len(pairs) - 1)))

Values(pairs) == [i \in 1..Len(pairs) |-> pairs[i][2]]

\* a set as a sequence, in some order
RECURSIVE SetToSeq(_)
SetToSeq(S) ==
    IF S = {} THEN <<>>
    ELSE LET x == CHOOSE y \in S : TRUE IN <<x>> \o SetToSeq(S \ {x})

\* iter_nodes: the files matching *.txt, sorted by path
iter_nodes(fs) ==
    LET keys == SetToSeq(DOMAIN fs) IN
    Values(SortPairs([i \in 1..Len(keys) |-> <<FileName(keys[i]), keys[i]>>]))

\* list.sort(key=str.lower)
SortLower(names) ==
    Values(SortPairs([i \in 1..Len(names) |-> <<Lower(names[i]), names[i]>>]))

-----------------------------------------------------------------------------
(* The index builder, cli.py 33-48 *)

\* the key of the None group of children (no text is equal to it)
NoneKey == <<"None">>

EmptyDict == [k \in {} |-> <<>>]

\* dict.get(key, [])
DictGet(d, key) == IF key \in DOMAIN d THEN d[key] ELSE <<>>

\* defaultdict(list): d[key].append(v)
DictAppend(d, key, v) ==
    IF key \in DOMAIN d THEN [d EXCEPT ![key] = Append(@, v)]
    ELSE d @@ (key :> <<v>>)

\* nodes is an insertion-ordered dict: a sequence of <<name, Node>>
NodeNames(ns) == {ns[i][1] : i \in 1..Len(ns)}

NodeGet(ns, name) == (CHOOSE i \in 1..Len(ns) : ns[i][1] = name)

\* a parent group that forgets the empty parent
ParentGroupDashOnly(n) == IF n.parent # NoParent THEN n.parent ELSE NoneKey

\* line 42: parent = n.parent if n.parent and n.parent != "-" else None
ParentGroup(n) ==
    IF n.parent # <<>> /\ n.parent # NoParent THEN n.parent ELSE NoneKey

\* the loop of lines 38-43 over the keys in order
RECURSIVE IndexFrom(_, _, _)
IndexFrom(order, fs, acc) ==
    IF order = <<>> THEN acc
    ELSE LET name == Stem(FileName(Head(order)))
             n    == read_node(fs[Head(order)])
         IN  IndexFrom(Tail(order), fs,
                 [nodes    |-> Append(acc.nodes, <<name, n>>),
                  children |-> DictAppend(acc.children, ParentGroup(n), name)])

build_index(fs) ==
    LET acc == IndexFrom(iter_nodes(fs), fs, [nodes |-> <<>>, children |-> EmptyDict])
    IN  [nodes    |-> acc.nodes,
         children |-> [k \in DOMAIN acc.children |-> SortLower(acc.children[k])]]

-----------------------------------------------------------------------------
(* The tree renderer, cli.py 97-146 *)

\* the glyphs; each stands for the three characters the code prints
BranchMid  == "|- "    \* U+251C U+2500 space
BranchLast == "L- "    \* U+2514 U+2500 space
ContMid    == "|  "    \* U+2502 space space
ContLast   == "   "

Line(kind, prefix, name, type, parent) ==
    [kind |-> kind, prefix |-> prefix, name |-> name, type |-> type, parent |-> parent]

Msg(kind, name) == Line(kind, <<>>, name, <<>>, <<>>)

Slash(name) == <<"/">> \o name

\* a child lookup that forgets the bare form of the parent reference
KidsSlashOnly(ch, name) == DictGet(ch, Slash(name))

\* lines 109-111: kids = children.get("/name", []); kids += children.get(name, [])
Kids(ch, name) == DictGet(ch, Slash(name)) \o DictGet(ch, name)

\* line 111: += extends in place the list that children holds under "/name"
ChildrenAfterLookup(ch, name) ==
    IF Slash(name) \in DOMAIN ch
    THEN [ch EXCEPT ![Slash(name)] = @ \o DictGet(ch, name)]
    ELSE ch

\* a de-duplication that forgets to de-duplicate
DedupNone(kids) == kids

\* lines 113-118: de-duplicate, the first occurrence kept; F[n] is ordered
\* after the loop has taken the first n kids (k is in seen when an earlier kid is k)
Dedup(kids) ==
    LET F[n \in 0..Len(kids)] ==
            IF n = 0 THEN <<>>
            ELSE IF \E j \in 1..(n - 1) : kids[j] = kids[n]
                 THEN F[n - 1] ELSE Append(F[n - 1], kids[n])
    IN  F[Len(kids)]

\* lines 121-122
Branch(last)      == IF last THEN BranchLast ELSE BranchMid
child_prefix(last) == IF last THEN ContLast ELSE ContMid

\* line 123: the prefix display passes to a child (child_prefix is not used)
ChildIndent(prefix, last) == prefix \o <<Branch(last)>>

\* roots that take every node for a root
RootsAll(ns) == SortLower([i \in 1..Len(ns) |-> ns[i][1]])

\* lines 129-133
Roots(ns) ==
    SortLower(SelectSeq([i \in 1..Len(ns) |-> ns[i][1]],
        LAMBDA name : LET n == ns[NodeGet(ns, name)][2]
                      IN  n.parent = <<>> \/ n.parent = NoParent))

Frame(name, prefix, ordered) ==
    [name |-> name, prefix |-> prefix, ordered |-> ordered, i |-> 0]

Top == stack[Len(stack)]

\* the next display call is due: a top-level one, or line 123 of the top frame
CallDue ==
    /\ pc = "render"
    /\ IF stack = <<>> THEN pending # <<>> ELSE Top.i < Len(Top.ordered)

CalleeName == IF stack = <<>> THEN Head(pending) ELSE Top.ordered[Top.i + 1]

CalleePrefix ==
    IF stack = <<>> THEN <<>>
    ELSE ChildIndent(Top.prefix, Top.i + 1 = Len(Top.ordered))

Ready == pc # "render"

NoIndex == /\ nodes' = <<>> /\ children' = EmptyDict /\ roots' = <<>>
           /\ pending' = <<>> /\ stack' = <<>>

\* cmd_tree up to its first display call (lines 97-140)
cmd_tree(root) ==
    /\ Ready
    /\ cmd' = [op |-> "tree", name |-> root, force |-> FALSE]
    /\ UNCHANGED <<dir, files, creator, arg, res>>
    /\ IF ~dir
       THEN /\ out' = <<Msg("No data directory", <<>>)>>
            /\ rc' = 1 /\ pc' = "done" /\ NoIndex
       ELSE LET idx == build_index(files) IN
            /\ nodes' = idx.nodes
            /\ children' = idx.children
            /\ roots' = Roots(idx.nodes)
            /\ stack' = <<>>
            /\ IF root # <<>> /\ root \notin NodeNames(idx.nodes)
               THEN /\ out' = <<Msg("Root not found", root)>>
                    /\ rc' = 1 /\ pc' = "done" /\ pending' = <<>>
               ELSE /\ out' = <<>>
                    /\ rc' = -1 /\ pc' = "render"
                    /\ pending' = IF root # <<>> THEN <<root>> ELSE roots'

\* a call of display(name, prefix): lines 105-118, up to the loop over ordered
display ==
    /\ CallDue
    /\ Len(stack) < RecursionLimit
    /\ LET name   == CalleeName
           known  == name \in NodeNames(nodes)
           label  == IF known THEN nodes[NodeGet(nodes, name)][2].type ELSE <<>>
       IN  /\ out' = Append(out, Line(IF known THEN "node" ELSE "bare",
                                      CalleePrefix, name, label, <<>>))
           /\ stack' = Append(stack, Frame(name, CalleePrefix, Dedup(Kids(children, name))))
           /\ children' = ChildrenAfterLookup(children, name)
    /\ UNCHANGED <<dir, files, creator, cmd, rc, pc, nodes, roots, pending, arg, res>>

\* the call that exceeds the interpreter's recursion limit: RecursionError,
\* uncaught, ends the process with a traceback and exit status 1
RecursionError ==
    /\ CallDue
    /\ Len(stack) >= RecursionLimit
    /\ pc' = "crashed"
    /\ rc' = 1
    /\ stack' = <<>>
    /\ UNCHANGED <<dir, files, creator, cmd, out, nodes, children, roots, pending, arg, res>>

\* display returns: the loop of line 119 is exhausted
display_return ==
    /\ pc = "render"
    /\ stack # <<>>
    /\ Top.i = Len(Top.ordered)
    /\ LET rest == SubSeq(stack, 1, Len(stack) - 1) IN
       IF rest = <<>>
       THEN /\ stack' = <<>>
            /\ pending' = Tail(pending)
            /\ out' = IF cmd.name = <<>> THEN Append(out, Msg("blank", <<>>)) ELSE out
       ELSE /\ stack' = [rest EXCEPT ![Len(rest)].i = @ + 1]
            /\ UNCHANGED <<pending, out>>
    /\ UNCHANGED <<dir, files, creator, cmd, rc, pc, nodes, children, roots, arg, res>>

\* line 146: return 0
TreeEnd ==
    /\ pc = "render"
    /\ stack = <<>>
    /\ pending = <<>>
    /\ pc' = "done"
    /\ rc' = 0
    /\ UNCHANGED <<dir, files, creator, cmd, out, nodes, children, roots, pending,
                   stack, arg, res>>

NextTree == display \/ RecursionError \/ display_return \/ TreeEnd

-----------------------------------------------------------------------------
(* The commands init, add, list, show and edit *)

ReadmeKey == <<"R", "E", "A", "D", "M", "E">>

\* the text cmd_init writes (lines 153-157); each sentence is one token
ReadmeText == <<"World Builder data directory.", "\n",
                "You can store your notes here in plain text files.", "\n">>

\* cli.py 148-159
cmd_init ==
    /\ Ready
    /\ cmd' = [op |-> "init", name |-> <<>>, force |-> FALSE]
    /\ dir' = TRUE
    /\ files' = IF ReadmeKey \in DOMAIN files THEN files
                ELSE files @@ (ReadmeKey :> WriteText(ReadmeText))
    /\ out' = <<Msg("Initialized data directory", <<>>)>>
    /\ rc' = 0
    /\ pc' = "done"
    /\ NoIndex
    /\ UNCHANGED <<creator, arg, res>>

\* an add that overwrites without being asked to
AddRefusesNever(key, force) == FALSE

\* line 223: path.exists() and not args.force
AddRefuses(key, force) == key \in DOMAIN files /\ ~force

\* cli.py 218-234
cmd_add(name, type, parent, notes, force) ==
    /\ Ready
    /\ cmd' = [op |-> "add", name |-> name, force |-> force]
    /\ dir' = TRUE
    /\ LET key == node_path(name) IN
       IF AddRefuses(key, force)
       THEN /\ out' = <<Msg("Refusing to overwrite existing node", key)>>
            /\ rc' = 1
            /\ UNCHANGED <<files, creator>>
       ELSE /\ files' = [k \in DOMAIN files \cup {key} |->
                           IF k = key THEN RecordText(type, parent, notes) ELSE files[k]]
            /\ creator' = [k \in DOMAIN creator \cup {key} |->
                           IF k = key THEN name ELSE creator[k]]
            /\ out' = <<Msg("Created node", key)>>
            /\ rc' = 0
    /\ pc' = "done"
    /\ NoIndex
    /\ UNCHANGED <<arg, res>>

\* the lines cmd_list prints for the keys in order (lines 72-78)
RECURSIVE ListLines(_, _, _)
ListLines(order, fs, type) ==
    IF order = <<>> THEN <<>>
    ELSE LET n    == read_node(fs[Head(order)])
             rest == ListLines(Tail(order), fs, type)
         IN  IF type # <<>> /\ Lower(n.type) # Lower(type) THEN rest
             ELSE <<Line("node", <<>>, Stem(FileName(Head(order))), n.type, n.parent)>>
                  \o rest

\* cli.py 66-81
cmd_list(type) ==
    /\ Ready
    /\ cmd' = [op |-> "list", name |-> type, force |-> FALSE]
    /\ IF ~dir
       THEN /\ out' = <<Msg("No data directory", <<>>)>>
            /\ rc' = 1
       ELSE /\ out' = LET lines == ListLines(iter_nodes(files), files, type)
                      IN  IF lines = <<>> THEN <<Msg("(no nodes)", <<>>)>> ELSE lines
            /\ rc' = 0
    /\ pc' = "done"
    /\ NoIndex
    /\ UNCHANGED <<dir, files, creator, arg, res>>

\* cli.py 83-95
cmd_show(name) ==
    /\ Ready
    /\ cmd' = [op |-> "show", name |-> name, force |-> FALSE]
    /\ LET key == node_path(name) IN
       IF key \notin DOMAIN files
       THEN /\ out' = <<Msg("Node not found", key)>>
            /\ rc' = 1
       ELSE LET n == read_node(files[key]) IN
            /\ out' = <<Line("show", <<>>, name, n.type, n.parent),
                        Msg("Notes", IF n.notes # <<>> THEN n.notes
                                     ELSE <<"(", "n", "o", "n", "e", ")">>)>>
            /\ rc' = 0
    /\ pc' = "done"
    /\ NoIndex
    /\ UNCHANGED <<dir, files, creator, arg, res>>

\* cli.py 50-64; the editor is outside the program: it leaves any text in the
\* file, or it is not installed
cmd_edit(name, text, installed) ==
    /\ Ready
    /\ cmd' = [op |-> "edit", name |-> name, force |-> FALSE]
    /\ LET key == node_path(name) IN
       IF key \notin DOMAIN files
       THEN /\ out' = <<Msg("Node not found", key)>>
            /\ rc' = 1
            /\ UNCHANGED files
       ELSE IF ~installed
       THEN /\ out' = <<Msg("Editor not found", <<>>)>>
            /\ rc' = 1
            /\ UNCHANGED files
       ELSE /\ files' = [files EXCEPT ![key] = text]
            /\ out' = <<>>
            /\ rc' = 0
    /\ pc' = "done"
    /\ NoIndex
    /\ UNCHANGED <<dir, creator, arg, res>>

-----------------------------------------------------------------------------
(* Spec: the command line, from a machine without a data directory *)

CliNames   == {<<"A">>, <<"a">>, <<"b">>}
CliTypes   == {<<"K">>}
CliParents == {<<>>, <<"a">>, <<"b">>}
CliNotes   == {<<>>, <<"n">>}
CliEdits   == {<<>>}
CliRoots   == {<<>>, <<"a">>, <<"q">>}
CliFilters == {<<>>, <<"k">>}

Init ==
    /\ dir = FALSE
    /\ files = EmptyDict
    /\ creator = EmptyDict
    /\ cmd = [op |-> "none", name |-> <<>>, force |-> FALSE]
    /\ rc = 0
    /\ out = <<>>
    /\ pc = "idle"
    /\ nodes = <<>>
    /\ children = EmptyDict
    /\ roots = <<>>
    /\ pending = <<>>
    /\ stack = <<>>
    /\ arg = <<>>
    /\ res = <<>>

Next ==
    \/ cmd_init
    \/ \E name \in CliNames, type \in CliTypes, parent \in CliParents,
          notes \in CliNotes, force \in BOOLEAN :
          cmd_add(name, type, parent, notes, force)
    \/ \E type \in CliFilters : cmd_list(type)
    \/ \E name \in CliNames : cmd_show(name)
    \/ \E name \in CliNames, text \in CliEdits, installed \in BOOLEAN :
          cmd_edit(name, text, installed)
    \/ \E root \in CliRoots : cmd_tree(root)
    \/ display
    \/ RecursionError
    \/ display_return
    \/ TreeEnd

Spec == Init /\ [][Next]_vars

-----------------------------------------------------------------------------
(* SpecTree: the tree command on every store of up to three records *)

TreeKeys == {<<"a">>, <<"b">>, <<"c">>}

TreeRoots == {<<>>, <<"a">>, <<"b">>, <<"q">>}

\* record files as add writes them and as an editor may leave them: every
\* parent form, a blank parent line, a padded parent line, a one-line file
\* and an empty file
TreeTexts ==
    {RecordText(<<"K">>, p, <<>>) :
        p \in {<<>>, <<"a">>, <<"/", "a">>, <<"b">>, <<"/", "b">>, <<"c">>, <<"z">>}}
    \cup {<<"K", "\n", "\n">>, <<"K", "\n", " ", "a", " ", "\n", "n", "\n">>,
          <<"K", "\n">>, <<>>}

InitTree ==
    /\ dir = TRUE
    /\ \E keys \in SUBSET TreeKeys : files \in [keys -> TreeTexts]
    /\ creator = EmptyDict
    /\ cmd = [op |-> "none", name |-> <<>>, force |-> FALSE]
    /\ rc = 0
    /\ out = <<>>
    /\ pc = "idle"
    /\ nodes = <<>>
    /\ children = EmptyDict
    /\ roots = <<>>
    /\ pending = <<>>
    /\ stack = <<>>
    /\ arg = <<>>
    /\ res = <<>>

NextTreeCmd ==
    \/ \E root \in TreeRoots : cmd_tree(root)
    \/ display
    \/ RecursionError
    \/ display_return
    \/ TreeEnd

SpecTree == InitTree /\ [][NextTreeCmd]_vars

\* the interpreter runs the next statement of a command it has started
FairSpecTree ==
    InitTree /\ [][NextTreeCmd]_vars /\ WF_vars(NextTree)

-----------------------------------------------------------------------------
(* SpecSlug: slugify applied to every short name, and to its own result *)

SlugAlphabet == {"A", "a", "1", "_", " ", "-"}

\* the command-line state of the specifications that study one function
NoCommand ==
    /\ dir = FALSE
    /\ files = EmptyDict
    /\ creator = EmptyDict
    /\ cmd = [op |-> "none", name |-> <<>>, force |-> FALSE]
    /\ rc = 0
    /\ out = <<>>
    /\ pc = "idle"
    /\ nodes = <<>>
    /\ children = EmptyDict
    /\ roots = <<>>
    /\ pending = <<>>
    /\ stack = <<>>

InitSlug ==
    /\ NoCommand
    /\ arg \in SeqsUpTo(SlugAlphabet, MaxNameLen)
    /\ res = <<>>

SlugOnce ==
    /\ res = <<>>
    /\ res' = <<slugify(arg)>>
    /\ UNCHANGED <<dir, files, creator, cmd, rc, out, pc, nodes, children, roots,
                   pending, stack, arg>>

SlugAgain ==
    /\ Len(res) = 1
    /\ res' = Append(res, slugify(res[1]))
    /\ UNCHANGED <<dir, files, creator, cmd, rc, out, pc, nodes, children, roots,
                   pending, stack, arg>>

NextSlug == SlugOnce \/ SlugAgain

SpecSlug == InitSlug /\ [][NextSlug]_vars

-----------------------------------------------------------------------------
(* SpecRoundTrip: add writes a record, read_node reads it back *)

FieldAlphabet == {"a", " ", "\n"}
NotesAlphabet == {"a", "\n", "\r"}

RoundTripName == <<"x">>

InitRoundTrip ==
    /\ NoCommand
    /\ arg \in [type   : SeqsUpTo(FieldAlphabet, MaxFieldLen),
                parent : SeqsUpTo(FieldAlphabet, MaxFieldLen),
                notes  : SeqsUpTo(NotesAlphabet, MaxNotesLen)]
    /\ res = <<>>

RoundTripAdd ==
    /\ files = EmptyDict
    /\ cmd_add(RoundTripName, arg.type, arg.parent, arg.notes, FALSE)

RoundTripRead ==
    /\ node_path(RoundTripName) \in DOMAIN files
    /\ res = <<>>
    /\ res' = <<read_node(files[node_path(RoundTripName)])>>
    /\ UNCHANGED <<dir, files, creator, cmd, rc, out, pc, nodes, children, roots,
                   pending, stack, arg>>

NextRoundTrip == RoundTripAdd \/ RoundTripRead

SpecRoundTrip == InitRoundTrip /\ [][NextRoundTrip]_vars

-----------------------------------------------------------------------------
(* C6: slugify *)

SlugChars == {LowerAZ[i] : i \in 1..26} \cup {Digits[i] : i \in 1..10} \cup {"_"}

IsSlug(s) ==
    /\ \A i \in 1..Len(s) : s[i] \in SlugChars
    /\ \A i \in 1..(Len(s) - 1) : ~(s[i] = "_" /\ s[i + 1] = "_")
    /\ s # <<>> => s[1] # "_" /\ s[Len(s)] # "_"

\* no character of the name is a letter or a digit
NoAlnum(name) ==
    \A i \in 1..Len(name) :
        IndexIn(name[i], LowerAZ) = 0 /\ IndexIn(name[i], UpperAZ) = 0
        /\ IndexIn(name[i], Digits) = 0

\* C6: slugify(slugify(N)) = slugify(N); slugify(N) holds only characters of
\* [a-z0-9_], no two consecutive "_" and no leading or trailing "_"; a name
\* with no alphanumeric character maps to the empty string.
C6_SlugifyIdempotent ==
    /\ Len(res) >= 1 => /\ IsSlug(res[1])
                        /\ NoAlnum(arg) => res[1] = <<>>
    /\ Len(res) = 2 => res[2] = res[1]

\* slugify has been applied twice to a name with a capital, a run of two
\* characters outside [a-z0-9] and a trailing one
C6_Witness ==
    /\ Len(res) = 2
    /\ arg = <<"A", " ", "-">>
    /\ res[1] = <<"a">>

-----------------------------------------------------------------------------
(* C5: the round trip of add and read_node *)

HasBreak(s) == \E i \in 1..Len(s) : IsLineBreak(s[i])

\* a field that is one line without surrounding white space
CleanField(s) == ~HasBreak(s) /\ Strip(s) = s

\* notes whose first and last lines are not blank
NoEdgeBlankLine(s) ==
    \/ s = <<>>
    \/ LET lines == SplitLines(s) IN
       /\ ~IsLineBreak(s[1]) /\ ~IsLineBreak(s[Len(s)])
       /\ Strip(lines[1]) # <<>> /\ Strip(lines[Len(lines)]) # <<>>

ReadBack == [type |-> arg.type, parent |-> arg.parent, notes |-> arg.notes]

\* C5 as claimed: for every T, P and every S without a leading or trailing
\* blank line, read_node after add returns exactly T, P and S.
C5_RoundTripAnyField ==
    (res # <<>> /\ NoEdgeBlankLine(arg.notes)) => res[1] = ReadBack

\* C5 as amended: read_node after add returns exactly T, P and S when T and P
\* are single lines without leading or trailing white space, P is not empty,
\* and the only line break S holds is "\n"; an empty P is read back as "-".
C5_RoundTrip ==
    (res # <<>> /\ CleanField(arg.type) /\ CleanField(arg.parent)
       /\ (\A i \in 1..Len(arg.notes) : arg.notes[i] # "\r"))
    => IF arg.parent # <<>> THEN res[1] = ReadBack
       ELSE res[1] = [ReadBack EXCEPT !.parent = NoParent]

\* a record whose notes end in a line break has been read back
C5_Witness ==
    /\ res # <<>>
    /\ arg.type = <<"a">>
    /\ arg.parent = <<"a", "a">>
    /\ arg.notes = <<"a", "\n">>
    /\ res[1].notes = arg.notes

-----------------------------------------------------------------------------
(* The tree claims: what they speak of *)

\* the index as build_index returns it for the store
Built == build_index(files)

ParentField(name) == nodes[NodeGet(nodes, name)][2].parent

IsRootField(p) == p = <<>> \/ p = NoParent

\* the node a parent field names, in the bare or the "/name" form
ParentNode(name) ==
    LET p == ParentField(name) IN
    IF p \in NodeNames(nodes) THEN p
    ELSE IF \E k \in NodeNames(nodes) : p = Slash(k)
         THEN CHOOSE k \in NodeNames(nodes) : p = Slash(k)
         ELSE NoneKey

\* the n-th ancestor of a node along the parent fields
RECURSIVE Ancestor(_, _)
Ancestor(name, n) ==
    IF n = 0 \/ name = NoneKey THEN name
    ELSE Ancestor(ParentNode(name), n - 1)

OnCycle(name) == \E n \in 1..Len(nodes) : Ancestor(name, n) = name

CycleLen(name) == CHOOSE n \in 1..Len(nodes) :
    Ancestor(name, n) = name /\ \A m \in 1..(n - 1) : Ancestor(name, m) # name

\* the parent chain of the node ends at a root
ReachesRoot(name) ==
    \E n \in 0..Len(nodes) :
        /\ Ancestor(name, n) # NoneKey
        /\ IsRootField(ParentField(Ancestor(name, n)))

\* a tree command has built its index and is rendering, or has rendered
TreeRun == cmd.op = "tree" /\ (pc \in {"render", "crashed"} \/ (pc = "done" /\ rc = 0))

Printed == SelectSeq(out, LAMBDA l : l.kind \in {"node", "bare"})

TimesPrinted(name) == Cardinality({i \in 1..Len(out) :
                                     out[i].kind \in {"node", "bare"} /\ out[i].name = name})

-----------------------------------------------------------------------------
(* C2: the prefixes of the tree *)

\* the running prefix frame k hands to its descendants under the rule of the
\* claim: the parent's running prefix and a continuation, nothing for a root
RECURSIVE Running(_)
Running(k) ==
    IF k <= 1 THEN <<>>
    ELSE Running(k - 1)
         \o <<child_prefix(stack[k - 1].i + 1 = Len(stack[k - 1].ordered))>>

\* C2: a child is printed with the parent's running prefix and one branch
\* glyph, the glyph of the last child for the last one; so every line at
\* depth d >= 1 is d-1 continuation segments and then one branch glyph.
C2_TreeArt ==
    /\ \A k \in 2..Len(stack) :
          stack[k].prefix =
             Running(k - 1) \o <<Branch(stack[k - 1].i + 1 = Len(stack[k - 1].ordered))>>
    /\ \A i \in 1..Len(Printed) :
          LET p == Printed[i].prefix IN
          p # <<>> => /\ p[Len(p)] \in {BranchMid, BranchLast}
                      /\ \A j \in 1..(Len(p) - 1) : p[j] \in {ContMid, ContLast}

-----------------------------------------------------------------------------
(* C9: the renderer and the index *)

\* C9: while and after the tree is rendered, nodes and every child list of
\* children are what build_index returned.
C9_IndexUntouched ==
    TreeRun => nodes = Built.nodes /\ children = Built.children

-----------------------------------------------------------------------------
(* C3: the children printed under a node *)

FirstIndex(s, x) == CHOOSE i \in 1..Len(s) : s[i] = x /\ \A j \in 1..(i - 1) : s[j] # x

\* r is s with every element kept at its first occurrence only
IsFirstOccurrences(r, s) ==
    /\ {r[i] : i \in 1..Len(r)} = {s[i] : i \in 1..Len(s)}
    /\ \A i \in 1..Len(r) : \A j \in (i + 1)..Len(r) :
          r[i] # r[j] /\ FirstIndex(s, r[i]) < FirstIndex(s, r[j])

SortedLower(s) ==
    \A i \in 1..Len(s) : \A j \in (i + 1)..Len(s) : ~StrLess(Lower(s[j]), Lower(s[i]))

Occurrences(s, x) == Cardinality({i \in 1..Len(s) : s[i] = x})

\* C3: under every displayed node X the children are the list built for "/X"
\* then the list built for "X", each sorted case-insensitively, a repeated key
\* kept at its first occurrence; they are exactly the nodes whose parent field
\* is "/X" or "X", each once.
C3_ChildOrder ==
    \A k \in 1..Len(stack) :
        LET X     == stack[k].name
            slash == DictGet(Built.children, Slash(X))
            bare  == DictGet(Built.children, X)
            kids  == stack[k].ordered
        IN  /\ SortedLower(slash) /\ SortedLower(bare)
            /\ IsFirstOccurrences(kids, slash \o bare)
            /\ \A n \in NodeNames(nodes) :
                  Occurrences(kids, n) = IF ParentField(n) \in {X, Slash(X)} THEN 1 ELSE 0
            /\ \A i \in 1..Len(kids) : kids[i] \in NodeNames(nodes)

\* a node with children under both forms is displayed again, and the list
\* children holds for "/X" by now repeats a key
C3_Witness ==
    \E k \in 1..Len(stack) :
        LET X == stack[k].name IN
        /\ DictGet(Built.children, Slash(X)) # <<>>
        /\ DictGet(Built.children, X) # <<>>
        /\ Len(stack[k].ordered) = 2
        /\ Len(DictGet(children, Slash(X))) > 2

-----------------------------------------------------------------------------
(* C4: the index *)

ChildSlots(ch, name) ==
    {<<k, i>> \in {<<k2, i2>> \in (DOMAIN ch) \X (1..Len(nodes)) : i2 <= Len(ch[k2])} :
        ch[k][i] = name}

SeqSet(s) == {s[i] : i \in 1..Len(s)}

\* the tree command has built its index and made no display call yet
JustIndexed == cmd.op = "tree" /\ pc = "render" /\ out = <<>> /\ stack = <<>>

\* C4: after build_index every node key is in exactly one child list, once;
\* the None group is exactly the nodes whose parent field is "" or "-", and
\* these are the roots tree prints when no root is given.
C4_IndexGroups ==
    /\ JustIndexed =>
          /\ \A name \in NodeNames(nodes) : Cardinality(ChildSlots(children, name)) = 1
          /\ SeqSet(DictGet(children, NoneKey))
                = {name \in NodeNames(nodes) : IsRootField(ParentField(name))}
          /\ SeqSet(roots) = SeqSet(DictGet(children, NoneKey))
    /\ (cmd.op = "tree" /\ cmd.name = <<>> /\ pc = "done" /\ rc = 0) =>
          {Printed[i].name : i \in {j \in 1..Len(Printed) : Printed[j].prefix = <<>>}}
             = {name \in NodeNames(nodes) : IsRootField(ParentField(name))}

\* tree without a root has printed a store that holds a record of fewer than
\* two lines (a root), a record with a dangling parent and a record on a cycle
C4_Witness ==
    /\ cmd.op = "tree" /\ cmd.name = <<>> /\ pc = "done" /\ rc = 0
    /\ Len(nodes) = 3
    /\ \E k \in DOMAIN files : Len(SplitLines(files[k])) < 2 /\ TimesPrinted(k) = 1
    /\ \E n \in NodeNames(nodes) :
          ~IsRootField(ParentField(n)) /\ ParentNode(n) = NoneKey
    /\ \E n \in NodeNames(nodes) : OnCycle(n)

-----------------------------------------------------------------------------
(* C8: tree -r X with X on a parent cycle *)

\* tree was given a root that lies on a parent cycle
CycleRun == TreeRun /\ cmd.name # <<>> /\ OnCycle(cmd.name)

\* C8 as claimed: tree -r X with X on a parent cycle never terminates.
C8_NeverTerminates == CycleRun => pc = "render"

\* C8 as amended: tree -r X with X on a parent cycle never returns normally;
\* display(X) never returns, the recursion follows the cycle and re-enters
\* each node of it every cycle-length levels, until the interpreter's
\* recursion limit ends the command with RecursionError (exit status 1).
C8_CycleNeverCompletes ==
    CycleRun =>
        /\ pc # "done"
        /\ pending = <<cmd.name>>
        /\ stack # <<>> => stack[1].name = cmd.name
        /\ Len(stack) = 1 => Top.i < Len(Top.ordered)
        /\ \A k \in 1..Len(stack) :
              (k + CycleLen(cmd.name) <= Len(stack)
                  /\ OnCycle(stack[k + CycleLen(cmd.name)].name))
                 => stack[k + CycleLen(cmd.name)].name = stack[k].name
        /\ pc = "crashed" =>
              /\ rc = 1
              /\ Len(Printed) >= RecursionLimit
              /\ TimesPrinted(cmd.name) >= 2

\* the recursion limit has ended tree -r X on a cycle of two nodes, one
\* naming its parent in the bare form and one in the "/name" form
C8_Witness ==
    /\ CycleRun
    /\ pc = "crashed"
    /\ CycleLen(cmd.name) = 2
    /\ ParentField(cmd.name) = Slash(ParentNode(cmd.name))
    /\ ParentField(ParentNode(cmd.name)) = cmd.name

-----------------------------------------------------------------------------
(* C10: tree without a root *)

NoRootRun == TreeRun /\ cmd.name = <<>>

\* C10: tree with no root given terminates on every store, cycles and dangling
\* parents included: it prints no node twice and only nodes whose parent chain
\* ends at a root, so no node of a cycle, and it returns 0.
C10_NoRootTerminates ==
    /\ [](NoRootRun =>
            /\ pc # "crashed"
            /\ \A i \in 1..Len(Printed) :
                  /\ TimesPrinted(Printed[i].name) = 1
                  /\ Printed[i].name \in NodeNames(nodes)
                  /\ ReachesRoot(Printed[i].name)
                  /\ ~OnCycle(Printed[i].name))
    /\ ((NoRootRun /\ pc = "render") ~> (NoRootRun /\ pc = "done" /\ rc = 0))

\* tree without a root has finished on a store with a root that has a child,
\* and a node that is its own parent
C10_Witness ==
    /\ NoRootRun /\ pc = "done"
    /\ Len(Printed) = 2
    /\ Printed[2].prefix # <<>>
    /\ \E n \in NodeNames(nodes) : OnCycle(n) /\ TimesPrinted(n) = 0

-----------------------------------------------------------------------------
(* C1: add on an existing key *)

\* some record was written by a successful add of a name with this slug
AddedBefore(name) == \E k \in DOMAIN creator : slugify(creator[k]) = slugify(name)

\* C1: once add N1 has succeeded, add N2 without the force flag, for any N2
\* with slugify(N2) = slugify(N1), returns 1, prints the refusal and leaves
\* every record file as it was.
C1_AddRefusesExisting ==
    [][(cmd'.op = "add" /\ ~cmd'.force /\ AddedBefore(cmd'.name))
          => /\ rc' = 1
             /\ out' = <<Msg("Refusing to overwrite existing node", slugify(cmd'.name))>>
             /\ files' = files
             /\ creator' = creator]_vars

\* add "A" without the force flag has been refused on the record add "a" wrote
C1_Witness ==
    /\ cmd = [op |-> "add", name |-> <<"A">>, force |-> FALSE]
    /\ rc = 1
    /\ <<"a">> \in DOMAIN creator
    /\ creator[<<"a">>] = <<"a">>
    /\ read_node(files[<<"a">>]).notes = <<"n">>

-----------------------------------------------------------------------------
(* C7: records persist *)

\* C7: init, add, list, show and tree remove no record; list, show and tree
\* change no record; the text of an existing record changes only in an add
\* with the force flag on the key of that record.
C7_RecordsPersist ==
    [][cmd'.op \in {"init", "add", "list", "show", "tree"}
          => /\ DOMAIN files \subseteq DOMAIN files'
             /\ cmd'.op \in {"list", "show", "tree"} => files' = files
             /\ \A k \in DOMAIN files :
                   files'[k] # files[k]
                      => cmd'.op = "add" /\ cmd'.force /\ slugify(cmd'.name) = k]_vars

\* add with the force flag has written a record in a directory that init
\* seeded and that holds another record, and all three are there
C7_Witness ==
    /\ cmd = [op |-> "add", name |-> <<"a">>, force |-> TRUE]
    /\ rc = 0
    /\ ReadmeKey \in DOMAIN files
    /\ <<"b">> \in DOMAIN files
    /\ creator[<<"a">>] = <<"a">>
    /\ read_node(files[<<"a">>]).parent = <<"b">>
=============================================================================
